---- MODULE Spec2Model ----
(***************************************************************************)
(* Model of the ImageProcessor facade of pj_tflite_pose_movenet            *)
(* (image_processor.cpp) over the PoseEngine declared in pose_engine.h.    *)
(*                                                                         *)
(* The facade owns one global owning pointer, s_pose_engine, and one       *)
(* function-local static, time_previous (inside DrawFps).  The PoseEngine  *)
(* implementation is not part of the modelled sources: every call into it  *)
(* is an input of the step, drawn from the values its declaration allows   *)
(* (kRetOk / kRetErr, and a Result filled by Process).                     *)
(*                                                                         *)
(* Floats are modelled in fixed point: scores in hundredths, normalized    *)
(* coordinates in units of 1/CoordDen.                                     *)
(***************************************************************************)
EXTENDS Integers, Sequences, FiniteSets, TLC

VARIABLES
    s_pose_engine,  \* the global unique_ptr<PoseEngine>: NULL or an instance id
    engines,        \* number of PoseEngine instances constructed so far
    live,           \* ids of the PoseEngine instances constructed and not destroyed
    time_previous,  \* DrawFps's static time_previous (UNSET until its first call)
    clock,          \* std::chrono::steady_clock
    mat,            \* the frame argument of the last operation, as that operation
                    \* left it (Frame0 when the operation takes no frame)
    result,         \* the caller's ImageProcessor::Result record
    pose_result,    \* the local PoseEngine::Result of the last operation
                    \* (PoseResult0 when the operation constructs none)
    op,             \* the facade operation called last
    ret,            \* its return value
    log,            \* the PRINT_E message it emitted ("none" if none)
    engine_call,    \* the PoseEngine method it invoked, and on which instance
    engine_in,      \* the outcome the PoseEngine offered to that operation
    cmd,            \* the command code of the last Command
    phase,          \* history of the facade's return codes (see Session)
    body,           \* the body in front of the camera: the keypoint scores and
                    \* coordinates PoseEngine::Process reports for it
    engine_times,   \* the three timings the PoseEngine measured in the last
                    \* operation (all 0 when it measured none)
    steps,          \* the effects of the last operation, in program order
    oob,            \* the reads of the last operation that fell outside the
                    \* vector they index
    crashed         \* the process was ended by a faulting read

vars == <<s_pose_engine, engines, live, time_previous, clock, mat, result,
          pose_result, op, ret, log, engine_call, engine_in, cmd, phase, body,
          engine_times, steps, oob, crashed>>

(***************************************************************************)
(* Bounds of the model                                                     *)
(***************************************************************************)
MaxEngines == 2     \* PoseEngine instances that may be constructed
MaxClock == 1       \* steady_clock ticks
MaxHigh == 2        \* joints of a body that may clear the threshold
MaxCmd == 1         \* command codes range over -1 .. MaxCmd

(***************************************************************************)
(* Constants of the program                                                *)
(***************************************************************************)
kRetOk == 0
kRetErr == -1
NULL == 0
UNSET == -1
NoReturn == -2      \* ret of a call that never returned
NoCall == [method |-> "none", engine |-> NULL]
EngineRets == {kRetOk, kRetErr}
Cmds == -1 .. MaxCmd

\* `if (s_pose_engine)` of Initialize
\* (variant: the guard is missing)
AlreadyInitialized_never(p) == FALSE
AlreadyInitialized(p) == p # NULL

\* `if (!s_pose_engine)` of Finalize, Command and Process
NotInitialized(p) == p = NULL

(***************************************************************************)
(* The session state of the facade's state machine, as a caller observes   *)
(* it from return codes: Ready after an Initialize that returned 0 and     *)
(* until a Finalize returns 0; Uninitialized otherwise.  phase refines     *)
(* Uninitialized into Never (no Initialize yet), InitFailed (the only      *)
(* Initialize that reached the PoseEngine failed there) and Finalized (a   *)
(* Ready session was finalized with return code 0).                        *)
(***************************************************************************)
Session == IF phase = "Ready" THEN "Ready" ELSE "Uninitialized"

Frame0 == [cols |-> 0, rows |-> 0, draws |-> <<>>]
Result0 == [time_pre_process |-> 0, time_inference |-> 0, time_post_process |-> 0]
PoseResult0 == [pose_keypoint_scores |-> <<>>, pose_keypoint_coords |-> <<>>,
                time_pre_process |-> 0, time_inference |-> 0, time_post_process |-> 0]

(***************************************************************************)
(* The inputs of Process: frames and PoseEngine results                    *)
(***************************************************************************)
PartNum == 17       \* joints per body of the single-body model
CoordDen == 2       \* normalized coordinates are multiples of 1/CoordDen
Joints == 0 .. PartNum - 1

\* constexpr float score_threshold = 0.2F, in hundredths
score_threshold == 20

\* static const std::vector<std::pair<int32_t, int32_t>> jointLineList
\* (variant: the last edge repeats the edge 6-5 in the other orientation)
jointLineList_dup ==
    << <<0, 2>>, <<2, 4>>, <<0, 1>>, <<1, 3>>,
       <<6, 5>>, <<5, 11>>, <<11, 12>>, <<12, 6>>,
       <<6, 8>>, <<8, 10>>, <<5, 7>>, <<7, 9>>,
       <<12, 14>>, <<14, 16>>, <<11, 13>>, <<5, 6>> >>
jointLineList ==
    << <<0, 2>>, <<2, 4>>, <<0, 1>>, <<1, 3>>,
       <<6, 5>>, <<5, 11>>, <<11, 12>>, <<12, 6>>,
       <<6, 8>>, <<8, 10>>, <<5, 7>>, <<7, 9>>,
       <<12, 14>>, <<14, 16>>, <<11, 13>>, <<13, 15>> >>

\* The frames a caller passes: cv::Mat of cols x rows pixels, nothing drawn.
Frames == { [cols |-> 640, rows |-> 480, draws |-> <<>>],
            [cols |-> 4, rows |-> 2, draws |-> <<>>] }

\* The per-joint scores a PoseEngine may report (hundredths): at most MaxHigh
\* joints, or all of them, clear the threshold.  Joints at or above it score
\* 0.20 (even index) or 0.90 (odd index), joints below it score 0.19 (even
\* index) or 0.00 (odd index).
JointSets == { S \in SUBSET Joints : Cardinality(S) <= MaxHigh } \cup {Joints}
ScoreLists ==
    { [i \in Joints |-> IF i \in S
                         THEN (IF i % 2 = 0 THEN 20 ELSE 90)
                         ELSE (IF i % 2 = 0 THEN 19 ELSE 0)] :
        S \in JointSets }

\* The per-joint coordinates a PoseEngine reports, normalized to 0 - 1.0 as
\* pose_engine.h documents, in units of 1/CoordDen: the joints are laid out on
\* the grid {0, 1/CoordDen, ..., 1} x {0, 1/CoordDen, ..., 1}.
PartLists ==
    { [i \in Joints |-> << i % (CoordDen + 1), (i \div (CoordDen + 1)) % (CoordDen + 1) >>] }

Timings == { <<0, 0, 0>>, <<1, 2, 3>> }

Bodies == { [scores |-> sl, coords |-> pl] : sl \in ScoreLists, pl \in PartLists }

\* PoseEngine::Result as PoseEngine::Process leaves it when it returns kRetOk:
\* one body (PartNum scores and PartNum coordinates) and the three timings.
PoseResult(b, t) ==
    [pose_keypoint_scores |-> << b.scores >>, pose_keypoint_coords |-> << b.coords >>,
     time_pre_process |-> t[1], time_inference |-> t[2], time_post_process |-> t[3]]

\* PoseEngine::Process returning kRetOk with no body at all
NoBody == [scores |-> <<>>, coords |-> <<>>]

\* Results of other shapes that the declared type of PoseEngine::Result
\* (vectors of any length) lets PoseEngine::Process return with kRetOk: no
\* body; one joint fewer or one more than PartNum; score and coordinate
\* vectors of different lengths.  Every joint scores 0.90, or every joint 0.00.
ShapeLens ==
    { <<PartNum, PartNum>>, <<PartNum - 1, PartNum - 1>>, <<PartNum + 1, PartNum + 1>>,
      <<PartNum - 1, PartNum>>, <<PartNum, PartNum - 1>> }
ShapeBodies ==
    { [scores |-> [i \in 0 .. n[1] - 1 |-> sc],
       coords |-> [i \in 0 .. n[2] - 1 |-> << i % (CoordDen + 1), 0 >>]] :
        n \in ShapeLens, sc \in {0, 90} } \cup {NoBody}

\* the state after static initialization, whatever body is in front of the camera
InitFacade ==
    /\ s_pose_engine = NULL
    /\ engines = 0
    /\ live = {}
    /\ time_previous = UNSET
    /\ clock = 0
    /\ mat = Frame0
    /\ result = Result0
    /\ pose_result = PoseResult0
    /\ op = "none"
    /\ ret = 0
    /\ log = "none"
    /\ engine_call = NoCall
    /\ engine_in = kRetOk
    /\ cmd = 0
    /\ phase = "Never"
    /\ engine_times = <<0, 0, 0>>
    /\ steps = <<>>
    /\ oob = {}
    /\ crashed = FALSE

Init == InitFacade /\ body \in Bodies

\* int32_t ImageProcessor::Initialize(const InputParam&)
Initialize ==
    \E e \in EngineRets :
        /\ ~crashed
        /\ op' = "Initialize"
        /\ engine_in' = e
        /\ IF AlreadyInitialized(s_pose_engine)
           THEN /\ log' = "Already initialized"
                /\ ret' = -1
                /\ engine_call' = NoCall
                /\ UNCHANGED <<s_pose_engine, engines, live, phase>>
           ELSE /\ engines < MaxEngines
                \* s_pose_engine.reset(new PoseEngine()): the old instance, if
                \* any, is destroyed
                /\ engines' = engines + 1
                /\ s_pose_engine' = engines + 1
                /\ live' = (live \ {s_pose_engine}) \cup {engines + 1}
                /\ engine_call' = [method |-> "Initialize", engine |-> engines + 1]
                /\ log' = "none"
                /\ ret' = IF e # kRetOk THEN -1 ELSE 0
                /\ phase' = IF e = kRetOk THEN "Ready"
                            ELSE IF phase = "Never" THEN "InitFailed" ELSE phase
        /\ mat' = Frame0
        /\ pose_result' = PoseResult0
        /\ cmd' = 0
        /\ engine_times' = <<0, 0, 0>>
        /\ steps' = IF engine_call'.method = "none" THEN <<>> ELSE << "engine" >>
        /\ oob' = {}
        /\ UNCHANGED <<time_previous, clock, result, body, crashed>>

\* int32_t ImageProcessor::Finalize(void)
Finalize ==
    \E e \in EngineRets :
        /\ ~crashed
        /\ op' = "Finalize"
        /\ engine_in' = e
        /\ IF NotInitialized(s_pose_engine)
           THEN /\ log' = "Not initialized"
                /\ ret' = -1
                /\ engine_call' = NoCall
                /\ UNCHANGED phase
           ELSE /\ engine_call' = [method |-> "Finalize", engine |-> s_pose_engine]
                /\ log' = "none"
                /\ ret' = IF e # kRetOk THEN -1 ELSE 0
                /\ phase' = IF e = kRetOk /\ phase = "Ready" THEN "Finalized" ELSE phase
        /\ mat' = Frame0
        /\ pose_result' = PoseResult0
        /\ cmd' = 0
        /\ engine_times' = <<0, 0, 0>>
        /\ steps' = IF engine_call'.method = "none" THEN <<>> ELSE << "engine" >>
        /\ oob' = {}
        /\ UNCHANGED <<s_pose_engine, engines, live, time_previous, clock, result,
                       body, crashed>>

\* int32_t ImageProcessor::Command(int32_t cmd)
Command ==
    \E c \in Cmds :
        /\ ~crashed
        /\ op' = "Command"
        /\ cmd' = c
        /\ engine_call' = NoCall
        /\ ret' = -1
        /\ log' = IF NotInitialized(s_pose_engine)
                  THEN "Not initialized"
                  ELSE "command is not supported"
        /\ mat' = Frame0
        /\ pose_result' = PoseResult0
        /\ engine_in' = kRetOk
        /\ engine_times' = <<0, 0, 0>>
        /\ steps' = <<>>
        /\ oob' = {}
        /\ UNCHANGED <<s_pose_engine, engines, live, time_previous, clock, result,
                       phase, body, crashed>>


\* `... != PoseEngine::kRetOk` after s_pose_engine->Process(mat, pose_result)
EngineProcessFailed(e) == e # kRetOk

\* float -> int32_t conversion of `int32_t x0 = part_list[..].first`:
\* truncation toward zero
ToInt32(v) == IF v >= 0 THEN v \div CoordDen ELSE -((-v) \div CoordDen)

\* the condition guarding cv::line
\* (variant: one clearing endpoint is enough)
LineGate_any(score_list, jl) ==
    score_list[jl[1]] >= score_threshold \/ score_list[jl[2]] >= score_threshold
LineGate(score_list, jl) ==
    score_list[jl[1]] >= score_threshold /\ score_list[jl[2]] >= score_threshold

\* the condition guarding cv::circle
MarkerGate(score) == score >= score_threshold

\* cv::line(mat, cv::Point(x0, y0), cv::Point(x1, y1), ..., 2) for one jointLine
Line(part_list, jl) ==
    [kind |-> "line", joint |-> jl,
     p0 |-> << ToInt32(part_list[jl[1]][1]), ToInt32(part_list[jl[1]][2]) >>,
     p1 |-> << ToInt32(part_list[jl[2]][1]), ToInt32(part_list[jl[2]][2]) >>]

\* cv::circle(mat, cv::Point(part_list[i].first, part_list[i].second), 5, ..., -1)
Circle(part_list, i) ==
    [kind |-> "circle", part |-> i,
     center |-> << ToInt32(part_list[i][1]), ToInt32(part_list[i][2]) >>]

\* for (const auto& jointLine : jointLineList) { if (...) cv::line(...); }
DrawLines(score_list, part_list) ==
    LET kept == SelectSeq(jointLineList, LAMBDA jl : LineGate(score_list, jl))
    IN  [k \in 1 .. Len(kept) |-> Line(part_list, kept[k])]

\* for (int32_t i = 0; i < part_num; i++) { if (score >= ...) cv::circle(...); }
DrawMarkers(score_list, part_list, part_num) ==
    LET idx == [k \in 1 .. part_num |-> k - 1]
        kept == SelectSeq(idx, LAMBDA i : MarkerGate(score_list[i]))
    IN  [k \in 1 .. Len(kept) |-> Circle(part_list, kept[k])]

\* static void DrawFps(...): the text drawn.  time_previous is initialized by
\* the first call; fps = 1e9 / (time_now - time_previous).
DrawFps(time_inference) ==
    LET prev == IF time_previous = UNSET THEN clock ELSE time_previous
    IN  [kind |-> "text", fps_delta |-> clock - prev, inference |-> time_inference]

\* `return -1;` after a failing s_pose_engine->Process: nothing is drawn and
\* nothing is written
\* (variant: the FPS text is drawn although the engine failed)
OnEngineFailure_fps(f) ==
    /\ ret' = -1
    /\ mat' = [f EXCEPT !.draws = << DrawFps(0) >>]
    /\ time_previous' = clock
    /\ UNCHANGED result
OnEngineFailure(f) ==
    /\ ret' = -1
    /\ mat' = f
    /\ UNCHANGED <<result, time_previous>>

\* `PoseEngine::Result pose_result;`: a fresh object in every call
LocalPoseResult == PoseResult0

\* what PoseEngine::Process leaves in the object it is handed when it returns
\* kRetOk for body b, having measured the timings t
EngineFill(local, b, t) ==
    IF b = NoBody
    THEN [local EXCEPT !.time_pre_process = t[1], !.time_inference = t[2],
                       !.time_post_process = t[3]]
    ELSE PoseResult(b, t)

\* A read outside a vector is undefined: the build either faults, or reads
\* whatever lies there, modelled as a score below ("low") or above ("high")
\* the threshold and as the coordinate (0, 0).
UBOutcomes == {"low", "high", "crash"}
JunkScore(u) == IF u = "high" THEN 90 ELSE 0

\* `pose_result.pose_keypoint_scores[0]`: body slot 0; of an empty vector, an
\* object that is read as a vector without elements
Slot0(v) == IF Len(v) >= 1 THEN v[1] ELSE <<>>

\* the indices jointLineList names
TableJoints == UNION { {jointLineList[k][1], jointLineList[k][2]} : k \in 1 .. Len(jointLineList) }

\* what reads of the vector `list` find at the indices of TableJoints and at
\* 0 .. n-1: its own elements, and junk outside it
Mem(list, n, junk) ==
    IF (TableJoints \cup (0 .. n - 1)) \subseteq DOMAIN list
    THEN list
    ELSE [i \in TableJoints \cup (0 .. n - 1) \cup DOMAIN list |->
            IF i \in DOMAIN list THEN list[i] ELSE junk]

\* the reads of Process (lines 140-157) that fall outside the vector they
\* index, for the engine result pr: the two body slots, score_list at
\* jointLine.first, at jointLine.second when the first clears the threshold
\* (&& does not evaluate its right side otherwise), part_list at both joints
\* of a drawn line, score_list[i] for i < part_num and part_list[i] of a
\* drawn marker
OobReadsOf(sl, pl, part_num, sv) ==
    LET K == 1 .. Len(jointLineList)
        ScoreRead(i) ==
            \/ i < part_num
            \/ \E k \in K :
                 \/ jointLineList[k][1] = i
                 \/ jointLineList[k][2] = i /\ sv[jointLineList[k][1]] >= score_threshold
        PartRead(i) ==
            \/ i < part_num /\ MarkerGate(sv[i])
            \/ \E k \in K :
                 /\ i \in {jointLineList[k][1], jointLineList[k][2]}
                 /\ LineGate(sv, jointLineList[k])
        outside_sl == (TableJoints \cup (0 .. part_num - 1)) \ DOMAIN sl
        outside_pl == (TableJoints \cup (0 .. part_num - 1)) \ DOMAIN pl
    IN  { <<"score_list", i>> : i \in { j \in outside_sl : ScoreRead(j) } }
        \cup { <<"part_list", i>> : i \in { j \in outside_pl : PartRead(j) } }
OobReads(pr, junk) ==
    (IF Len(pr.pose_keypoint_scores) = 0 THEN { <<"pose_keypoint_scores", 0>> } ELSE {})
    \cup (IF Len(pr.pose_keypoint_coords) = 0 THEN { <<"pose_keypoint_coords", 0>> } ELSE {})
    \cup UNION { OobReadsOf(sl, pl, Cardinality(DOMAIN pl), Mem(sl, Cardinality(DOMAIN pl), junk)) :
                   sl \in { Slot0(pr.pose_keypoint_scores) },
                   pl \in { Slot0(pr.pose_keypoint_coords) } }

\* the drawing of Process in program order: the joint-line loop, the marker
\* loop, DrawFps
\* (variant: the marker loop runs before the joint-line loop)
Overlay_markers_first(score_list, part_list, part_num, time_inference) ==
    DrawMarkers(score_list, part_list, part_num)
    \o DrawLines(score_list, part_list)
    \o << DrawFps(time_inference) >>
Overlay(score_list, part_list, part_num, time_inference) ==
    DrawLines(score_list, part_list)
    \o DrawMarkers(score_list, part_list, part_num)
    \o << DrawFps(time_inference) >>

\* `time_previous = time_now;` of DrawFps
\* (variant: the assignment is missing)
TimeNow_kept == time_previous
TimeNow == clock

\* `result.time_* = pose_result.time_*;`
\* (variant: pre-process and post-process are exchanged)
ReturnResults_swapped(pr) ==
    [time_pre_process |-> pr.time_post_process,
     time_inference |-> pr.time_inference,
     time_post_process |-> pr.time_pre_process]
ReturnResults(pr) ==
    [time_pre_process |-> pr.time_pre_process,
     time_inference |-> pr.time_inference,
     time_post_process |-> pr.time_post_process]

\* The outcomes of undefined reads to tell apart for body b: one when b has
\* PartNum or more scores and as many coordinates (OobReads is then empty and
\* the outcome is never used), all of them otherwise.
UBChoices(b) ==
    IF b # NoBody /\ DOMAIN b.scores = DOMAIN b.coords /\ TableJoints \subseteq DOMAIN b.scores
    THEN {"low"}
    ELSE UBOutcomes

\* int32_t ImageProcessor::Process(cv::Mat& mat, ImageProcessor::Result& result)
Process ==
    \E u \in UBChoices(body), f \in Frames, e \in EngineRets, t \in Timings :
      LET pr == IF e = kRetOk THEN EngineFill(LocalPoseResult, body, t)
                ELSE LocalPoseResult
      IN
        /\ ~crashed
        /\ (e # kRetOk) => t = <<0, 0, 0>>
        /\ (NotInitialized(s_pose_engine) \/ EngineProcessFailed(e)) => u = "low"
        /\ op' = "Process"
        /\ engine_in' = e
        /\ IF NotInitialized(s_pose_engine)
           THEN /\ log' = "Not initialized"
                /\ ret' = -1
                /\ engine_call' = NoCall
                /\ mat' = f
                /\ pose_result' = PoseResult0
                /\ engine_times' = <<0, 0, 0>>
                /\ steps' = <<>>
                /\ oob' = {}
                /\ UNCHANGED <<result, time_previous, crashed>>
           ELSE /\ engine_call' = [method |-> "Process", engine |-> s_pose_engine]
                /\ log' = "none"
                /\ pose_result' = pr
                /\ engine_times' = t
                /\ IF EngineProcessFailed(e)
                   THEN /\ OnEngineFailure(f)
                        /\ steps' = << "engine" >>
                        /\ oob' = {}
                        /\ UNCHANGED crashed
                   ELSE LET sl == Slot0(pr.pose_keypoint_scores)
                            pl == Slot0(pr.pose_keypoint_coords)
                            part_num == Cardinality(DOMAIN pl)
                        IN
                        \E score_list \in { Mem(sl, part_num, JunkScore(u)) },
                           part_list \in { Mem(pl, part_num, <<0, 0>>) } :
                        LET draws == Overlay(score_list, part_list, part_num,
                                             pr.time_inference)
                        IN  /\ oob' = OobReads(pr, JunkScore(u))
                            /\ IF oob' # {} /\ u = "crash"
                               THEN /\ crashed' = TRUE
                                    /\ ret' = NoReturn
                                    /\ mat' = f
                                    /\ steps' = << "engine" >>
                                    /\ UNCHANGED <<result, time_previous>>
                               ELSE /\ mat' = [f EXCEPT !.draws = draws]
                                    /\ time_previous' = TimeNow
                                    /\ result' = ReturnResults(pr)
                                    /\ ret' = 0
                                    /\ steps' = << "engine" >>
                                                \o [d \in 1 .. Len(mat'.draws) |->
                                                        mat'.draws[d].kind]
                                                \o << "result" >>
                                    /\ UNCHANGED crashed
        /\ cmd' = 0
        /\ UNCHANGED <<s_pose_engine, engines, live, clock, phase, body>>

\* Time passes on the steady clock.
Tick ==
    /\ clock < MaxClock
    /\ clock' = clock + 1
    /\ UNCHANGED <<s_pose_engine, engines, live, time_previous, mat, result,
                   pose_result, op, ret, log, engine_call, engine_in, cmd, phase, body,
                   engine_times, steps, oob, crashed>>

Next == Initialize \/ Finalize \/ Command \/ Process \/ Tick

Spec == Init /\ [][Next]_vars

\* The same program in front of PoseEngine results of other shapes.
InitShape == InitFacade /\ body \in ShapeBodies
SpecShape == InitShape /\ [][Next]_vars

(***************************************************************************)
(* Properties                                                              *)
(***************************************************************************)
\* what the last Process drew, by kind of drawing
Drawn(kind) == { d \in 1 .. Len(mat.draws) : mat.draws[d].kind = kind }
LineDrawn(jl) == \E d \in Drawn("line") : mat.draws[d].joint = jl
MarkerDrawn(i) == \E d \in Drawn("circle") : mat.draws[d].part = i
ProcessOk == op = "Process" /\ ret = 0
\* the step is a call of facade operation o (Tick alone moves the clock)
Calls(o) == op' = o /\ clock' = clock
Clearing == { i \in Joints : body.scores[i] >= 20 }

\* C1: after a successful Initialize and a successful Finalize, an Initialize
\* whose PoseEngine initializes successfully returns 0 (the lifecycle can be
\* repeated).
C1_InitializeAfterFinalize ==
    [][(phase = "Finalized" /\ Calls("Initialize") /\ engine_in' = kRetOk)
        => ret' = 0]_vars

\* C2: Process on a session that was never initialized, or that was
\* successfully finalized, reports "Not initialized" without invoking the
\* PoseEngine and leaves the frame and the result record as they were.
C2_ProcessUninitialized ==
    [][(phase \in {"Never", "Finalized"} /\ Calls("Process"))
        => (/\ ret' = -1
            /\ log' = "Not initialized"
            /\ engine_call' = NoCall
            /\ mat'.draws = <<>>
            /\ result' = result)]_vars

\* C3: Initialize on a Ready session returns an error without constructing,
\* replacing or initializing a PoseEngine; at most one PoseEngine is live at
\* any time; a Process that follows is served by the engine of the first
\* session.
C3_InitializeWhileReady ==
    /\ [][(phase = "Ready" /\ Calls("Initialize"))
           => (/\ ret' = -1
               /\ log' = "Already initialized"
               /\ engine_call' = NoCall
               /\ s_pose_engine' = s_pose_engine
               /\ engines' = engines
               /\ live' = live
               /\ phase' = "Ready")]_vars
    /\ [](Cardinality(live) <= 1 /\ (phase = "Ready" => live = {s_pose_engine}))
    /\ [][(phase = "Ready" /\ op = "Initialize" /\ Calls("Process"))
           => (/\ engine_call' = [method |-> "Process", engine |-> s_pose_engine]
               /\ s_pose_engine' = s_pose_engine
               /\ (engine_in' = kRetOk => ret' = 0))]_vars
C3_Witness ==
    /\ phase = "Ready"
    /\ op = "Initialize"
    /\ log = "Already initialized"
    /\ engines = 1
    /\ live = {s_pose_engine}

\* C4: after an Initialize that failed in the PoseEngine's own Initialize the
\* session is Uninitialized: Process, Command and Finalize report "Not
\* initialized", and a further Initialize reaches the PoseEngine again instead
\* of being rejected as already initialized.
C4_FailedInitializeStaysUninitialized ==
    /\ [][(phase = "InitFailed" /\ (Calls("Process") \/ Calls("Command") \/ Calls("Finalize")))
           => (log' = "Not initialized" /\ engine_call' = NoCall)]_vars
    /\ [][(phase = "InitFailed" /\ Calls("Initialize"))
           => (log' # "Already initialized"
               /\ engine_call'.method = "Initialize")]_vars

\* C5: Finalize on a session that is not Ready (never initialized, or already
\* finalized) returns an error without calling PoseEngine::Finalize and
\* without changing the session.
C5_FinalizeNotReady ==
    [][(phase \in {"Never", "Finalized"} /\ Calls("Finalize"))
        => (/\ ret' = -1
            /\ engine_call' = NoCall
            /\ phase' = phase
            /\ s_pose_engine' = s_pose_engine)]_vars

\* C6: Command returns an error for every command code in every session
\* state and changes neither the session, the engine nor the FPS timestamp;
\* the error is "not supported" in Ready and "Not initialized" in
\* Uninitialized.
C6_CommandRejected ==
    [][Calls("Command")
        => (/\ ret' = -1
            /\ UNCHANGED <<s_pose_engine, engines, live, time_previous, phase>>
            /\ log' = IF Session = "Ready" THEN "command is not supported"
                      ELSE "Not initialized")]_vars

\* C7: a Process on a Ready session whose PoseEngine::Process fails returns
\* an error, draws nothing, leaves the result record and time_previous alone
\* and leaves the session Ready; the next Process is forwarded to the same
\* engine and succeeds when that engine does.
C7_FailedProcess ==
    /\ [][(phase = "Ready" /\ Calls("Process") /\ engine_in' # kRetOk)
           => (/\ ret' = -1
               /\ mat'.draws = <<>>
               /\ result' = result
               /\ time_previous' = time_previous
               /\ phase' = "Ready"
               /\ s_pose_engine' = s_pose_engine
               /\ engine_call' = [method |-> "Process", engine |-> s_pose_engine])]_vars
    /\ [][(phase = "Ready" /\ op = "Process" /\ ret = -1 /\ Calls("Process"))
           => (/\ engine_call' = engine_call
               /\ (engine_in' = kRetOk => ret' = 0))]_vars
C7_Witness ==
    /\ phase = "Ready"
    /\ op = "Process"
    /\ ret = -1
    /\ engine_call = [method |-> "Process", engine |-> s_pose_engine]
    /\ result # Result0
    /\ time_previous # UNSET
    /\ clock > time_previous

\* C8: in a successful Process a line is drawn for an edge of jointLineList
\* exactly when both its joints score >= 0.2 (once per edge), and a marker is
\* drawn for a joint exactly when it scores >= 0.2 (once per joint); the two
\* passes are gated independently.
C8_ThresholdGating ==
    ProcessOk =>
        /\ \A k \in 1 .. Len(jointLineList) :
              LineDrawn(jointLineList[k])
              <=> (jointLineList[k][1] \in Clearing /\ jointLineList[k][2] \in Clearing)
        /\ \A d \in Drawn("line") :
              \E k \in 1 .. Len(jointLineList) : mat.draws[d].joint = jointLineList[k]
        /\ Cardinality(Drawn("line"))
              = Cardinality({ k \in 1 .. Len(jointLineList) :
                                jointLineList[k][1] \in Clearing
                                /\ jointLineList[k][2] \in Clearing })
        /\ \A i \in Joints : MarkerDrawn(i) <=> i \in Clearing
        /\ \A d \in Drawn("circle") : mat.draws[d].part \in Joints
        /\ Cardinality(Drawn("circle")) = Cardinality(Clearing)
\* two markers none of whose incident lines is drawn: an edge with only one
\* clearing endpoint gets no line, scores 0.19 and 0.20 fall on either side
C8_Witness ==
    /\ ProcessOk
    /\ Cardinality(Drawn("circle")) = 2
    /\ Drawn("line") = {}
    /\ \E k \in 1 .. Len(jointLineList) :
          /\ MarkerDrawn(jointLineList[k][1])
          /\ ~MarkerDrawn(jointLineList[k][2])
          /\ body.scores[jointLineList[k][2]] = 19
          /\ body.scores[jointLineList[k][1]] = 20

\* C9: when exactly the two joints of one edge of jointLineList score >= 0.2,
\* a successful Process draws exactly one line and exactly two markers.
C9_OneEdge ==
    \A k \in 1 .. Len(jointLineList) :
        (ProcessOk /\ Clearing = {jointLineList[k][1], jointLineList[k][2]})
        => (/\ Cardinality(Drawn("line")) = 1
            /\ Cardinality(Drawn("circle")) = 2)
C9_Witness ==
    /\ ProcessOk
    /\ Clearing = {5, 6}
    /\ Cardinality(Drawn("line")) = 1
    /\ Cardinality(Drawn("circle")) = 2

\* C10: a keypoint reported at normalized (0.5, 0.5) is drawn at pixel
\* (cols / 2, rows / 2) of the frame.
C10_Denormalize ==
    ProcessOk =>
        \A d \in Drawn("circle") :
            LET c == body.coords[mat.draws[d].part] IN
            (2 * c[1] = CoordDen /\ 2 * c[2] = CoordDen)
            => mat.draws[d].center = << mat.cols \div 2, mat.rows \div 2 >>

\* the drawings of the last Process of one kind that precede no drawing of
\* the other kind
AllBefore(first, second) ==
    \A d1 \in Drawn(first), d2 \in Drawn(second) : d1 < d2
TableIndex(jl) == CHOOSE k \in 1 .. Len(jointLineList) : jointLineList[k] = jl
EngineOk == op = "Process" /\ engine_call.method = "Process" /\ engine_in = kRetOk

\* C11: after a successful Process the caller's result record holds exactly
\* the three timings the PoseEngine measured in that call (so each is >= 0
\* when the engine's are), whatever an earlier call left there.
C11_TimingsReturned ==
    ProcessOk =>
        /\ result = [time_pre_process |-> engine_times[1],
                     time_inference |-> engine_times[2],
                     time_post_process |-> engine_times[3]]
        /\ (\A j \in 1 .. 3 : engine_times[j] >= 0)
              => (/\ result.time_pre_process >= 0
                  /\ result.time_inference >= 0
                  /\ result.time_post_process >= 0)
C11_Witness ==
    /\ ProcessOk
    /\ engine_times = <<1, 2, 3>>
    /\ result.time_pre_process = 1
    /\ result.time_post_process = 3
    /\ time_previous > 0

\* C12: Process reads no score and no coordinate at an index at or beyond
\* the length of the vector of the one body the PoseEngine returned (the
\* length being checked before jointLineList indexes it).
C12_TableIndicesInRange ==
    (/\ EngineOk
     /\ phase = "Ready"
     /\ Len(pose_result.pose_keypoint_scores) = 1
     /\ Len(pose_result.pose_keypoint_coords) = 1
     /\ DOMAIN pose_result.pose_keypoint_scores[1] = DOMAIN pose_result.pose_keypoint_coords[1])
    => \A r \in oob : r[1] \notin {"score_list", "part_list"}

\* C13: whenever PoseEngine::Process returned kRetOk, every body slot and
\* every index Process reads exists in the result, also with no body and with
\* score and coordinate vectors of different lengths.
C13_ReadsExist == (EngineOk /\ phase = "Ready") => (oob = {} /\ ~crashed)

\* C14: a successful Process first invokes the PoseEngine, then draws the
\* lines in the order of jointLineList, then the markers in increasing joint
\* index, then the one FPS text, then writes the result record; nothing is
\* drawn unless the engine returned kRetOk.
C14_StepOrder ==
    /\ ProcessOk =>
          /\ Len(steps) = Len(mat.draws) + 2
          /\ steps[1] = "engine"
          /\ steps[Len(steps)] = "result"
          /\ \A d \in 1 .. Len(mat.draws) : steps[d + 1] = mat.draws[d].kind
          /\ Drawn("text") = {Len(mat.draws)}
          /\ AllBefore("line", "circle")
          /\ AllBefore("circle", "text")
          /\ AllBefore("line", "text")
          /\ \A d1, d2 \in Drawn("line") :
                d1 < d2 => TableIndex(mat.draws[d1].joint) < TableIndex(mat.draws[d2].joint)
          /\ \A d1, d2 \in Drawn("circle") :
                d1 < d2 => mat.draws[d1].part < mat.draws[d2].part
    /\ mat.draws # <<>> => (ProcessOk /\ EngineOk)
C14_Witness ==
    /\ ProcessOk
    /\ Cardinality(Drawn("line")) = Len(jointLineList)
    /\ Cardinality(Drawn("circle")) = PartNum
    /\ steps[1] = "engine"
    /\ steps[2] = "line"

\* C15: time_previous changes only in a successful Process, which sets it to
\* the time of that call and leaves s_pose_engine, the engine instances and
\* the session alone; Initialize, Finalize, Command and a failing Process
\* leave it as it is.
C15_TimePrevious ==
    /\ [][time_previous' # time_previous => (Calls("Process") /\ ret' = 0)]_vars
    /\ [][(Calls("Process") /\ ret' = 0)
           => (/\ time_previous' = clock
               /\ UNCHANGED <<s_pose_engine, engines, live, phase>>)]_vars
    /\ [][(Calls("Initialize") \/ Calls("Finalize") \/ Calls("Command"))
           => time_previous' = time_previous]_vars
\* a Finalize and a rejected Initialize later, the timestamp of the last
\* successful Process is still there
C15_Witness ==
    /\ phase = "Finalized"
    /\ op = "Initialize"
    /\ time_previous # UNSET
    /\ clock > time_previous
====
